---------------------------- MODULE Spec2Model ----------------------------
(***************************************************************************)
(* PlanReflectionPlanner (google/adk/planners/plan_reflection_planner.py). *)
(*                                                                         *)
(* A Python str is a sequence of characters.  The alphabet is abbreviated: *)
(* "/" is the slash that opens and closes every tag, a capital letter      *)
(* stands for the starred body of one tag ("P" for *PLANNING*, "F" for     *)
(* *FINAL_ANSWER*, ...) and "x" is any other character.  Every tag is      *)
(* therefore "/", body, "/", as in the source, so that two tags can share  *)
(* a slash and a tag can be cut short.                                     *)
(*                                                                         *)
(* types.Part objects live in `heap`; a Part is referred to by its index   *)
(* there, so that "the same object" and "a new object" are different.      *)
(* Part.thought is Optional[bool]: None and False are both FALSE here.     *)
(***************************************************************************)
EXTENDS Integers, Sequences, FiniteSets

\* ------------------------------------------------------------ bounds
\* Longest response_parts list of the structural inputs.
MaxParts == 4
\* Most pieces (a tag or a single character) a generated text is made of.
MaxPieces == 3

\* ------------------------------------------------------------ constants
PLANNING_TAG == <<"/", "P", "/">>
REASONING_TAG == <<"/", "R", "/">>
ACTION_TAG == <<"/", "A", "/">>
REFLECTION_TAG == <<"/", "L", "/">>
REPLANNING_TAG == <<"/", "N", "/">>
FINAL_ANSWER_TAG == <<"/", "F", "/">>

\* Python's None, for Part.text and FunctionCall.name, and for the return value.
NoText == <<"None">>
NoName == "None"
None == [none |-> TRUE]
\* types.FunctionCall(name=...)
FunctionCall(name) == [name |-> name]

\* types.Part(text=..., function_call=..., thought=...)
Part(text, function_call, thought) ==
    [text |-> text, function_call |-> function_call, thought |-> thought]

\* ------------------------------------------------------------ str
\* bool(s) for an Optional[str].
Truthy(s) == s # NoText /\ s # <<>>

\* text[a:b] of Python, 0-based and half open.
Slice(text, a, b) == SubSeq(text, a + 1, b)

\* text.startswith(tag)
startswith(text, tag) ==
    /\ Len(tag) <= Len(text)
    /\ Slice(text, 0, Len(tag)) = tag

\* separator in text
In(separator, text) ==
    \E k \in 0..(Len(text) - Len(separator)) :
        Slice(text, k, k + Len(separator)) = separator

\* Mutant of rfind: text.find(separator), the first occurrence.
RECURSIVE findFrom(_, _, _)
findFrom(text, separator, k) ==
    IF k > Len(text) - Len(separator) THEN -1
    ELSE IF Slice(text, k, k + Len(separator)) = separator THEN k
    ELSE findFrom(text, separator, k + 1)

find(text, separator) == findFrom(text, separator, 0)

\* text.rfind(separator): scans from the right end, -1 when there is none.
RECURSIVE rfindFrom(_, _, _)
rfindFrom(text, separator, k) ==
    IF k < 0 THEN -1
    ELSE IF Slice(text, k, k + Len(separator)) = separator THEN k
    ELSE rfindFrom(text, separator, k - 1)

rfind(text, separator) == rfindFrom(text, separator, Len(text) - Len(separator))

\* _split_by_last_pattern(text, separator) -> (head, tail)
_split_by_last_pattern(text, separator) ==
    LET index == rfind(text, separator)
    IN  IF index = -1 THEN <<text, <<>>>>
        ELSE <<Slice(text, 0, index + Len(separator)),
               Slice(text, index + Len(separator), Len(text))>>

\* Mutant of NarrativeTags: REFLECTION_TAG left out of the list.
NarrativeTagsWithoutReflection ==
    {PLANNING_TAG, REASONING_TAG, ACTION_TAG, REPLANNING_TAG}

\* The tags of the any(...) in _handle_non_function_call_parts.
NarrativeTags ==
    {PLANNING_TAG, REASONING_TAG, ACTION_TAG, REFLECTION_TAG, REPLANNING_TAG}

\* _mark_as_thought(response_part), on the Part's value.
_mark_as_thought(response_part) ==
    IF Truthy(response_part.text)
    THEN [response_part EXCEPT !.thought = TRUE]
    ELSE response_part

\* Mutant of _handle_non_function_call_parts: the prefix test comes first and
\* the final-answer split only in its else branch.
_handle_prefix_rule_first(h, preserved, id) ==
    LET response_part == h[id]
        response_text == IF Truthy(response_part.text) THEN response_part.text ELSE <<>>
    IN  IF /\ Truthy(response_text)
           /\ \E tag \in {PLANNING_TAG, REASONING_TAG, ACTION_TAG,
                          REFLECTION_TAG, REPLANNING_TAG} :
                  startswith(response_text, tag)
        THEN [heap |-> [h EXCEPT ![id] = _mark_as_thought(response_part)],
              preserved_parts |-> Append(preserved, id)]
        ELSE IF Truthy(response_part.text) /\ In(FINAL_ANSWER_TAG, response_part.text)
        THEN LET pair == _split_by_last_pattern(response_part.text, FINAL_ANSWER_TAG)
                 h1 == Append(h, _mark_as_thought(Part(pair[1], None, FALSE)))
                 p1 == Append(preserved, Len(h1))
             IN  IF Truthy(pair[2])
                 THEN [heap |-> Append(h1, Part(pair[2], None, FALSE)),
                       preserved_parts |-> Append(p1, Len(h1) + 1)]
                 ELSE [heap |-> h1, preserved_parts |-> p1]
        ELSE [heap |-> h, preserved_parts |-> Append(preserved, id)]

\* Mutant of _handle_non_function_call_parts: in the final-answer branch
\* _mark_as_thought is handed response_part instead of reasoning_part.
_handle_marking_response_part(h, preserved, id) ==
    LET response_part == h[id]
    IN  IF Truthy(response_part.text) /\ In(FINAL_ANSWER_TAG, response_part.text)
        THEN LET pair == _split_by_last_pattern(response_part.text, FINAL_ANSWER_TAG)
                 h0 == [h EXCEPT ![id] = _mark_as_thought(response_part)]
                 h1 == Append(h0, Part(pair[1], None, FALSE))
                 p1 == Append(preserved, Len(h1))
             IN  IF Truthy(pair[2])
                 THEN [heap |-> Append(h1, Part(pair[2], None, FALSE)),
                       preserved_parts |-> Append(p1, Len(h1) + 1)]
                 ELSE [heap |-> h1, preserved_parts |-> p1]
        ELSE LET marked == IF /\ Truthy(response_part.text)
                              /\ \E tag \in NarrativeTags :
                                     startswith(response_part.text, tag)
                           THEN _mark_as_thought(response_part)
                           ELSE response_part
             IN  [heap |-> [h EXCEPT ![id] = marked],
                  preserved_parts |-> Append(preserved, id)]

\* _handle_non_function_call_parts(response_part, preserved_parts): the heap and
\* the preserved_parts list after the call; `id` is the Part object passed in.
_handle_non_function_call_parts(h, preserved, id) ==
    LET response_part == h[id]
    IN  IF Truthy(response_part.text) /\ In(FINAL_ANSWER_TAG, response_part.text)
        THEN LET pair == _split_by_last_pattern(response_part.text, FINAL_ANSWER_TAG)
                 reasoning_text == pair[1]
                 final_answer_text == pair[2]
                 h1 == IF Truthy(reasoning_text)
                       THEN Append(h, _mark_as_thought(Part(reasoning_text, None, FALSE)))
                       ELSE h
                 p1 == IF Truthy(reasoning_text) THEN Append(preserved, Len(h1))
                       ELSE preserved
                 h2 == IF Truthy(final_answer_text)
                       THEN Append(h1, Part(final_answer_text, None, FALSE))
                       ELSE h1
                 p2 == IF Truthy(final_answer_text) THEN Append(p1, Len(h2)) ELSE p1
             IN  [heap |-> h2, preserved_parts |-> p2]
        ELSE LET response_text == IF Truthy(response_part.text)
                                  THEN response_part.text ELSE <<>>
                 marked == IF /\ Truthy(response_text)
                              /\ \E tag \in NarrativeTags : startswith(response_text, tag)
                           THEN _mark_as_thought(response_part)
                           ELSE response_part
             IN  [heap |-> [h EXCEPT ![id] = marked],
                  preserved_parts |-> Append(preserved, id)]

\* ------------------------------------------------------------ instruction
\* The seven blocks of _build_reflection_planner_instruction: prose is one
\* token per run of text, an interpolated tag is the tag's characters.
high_level_preamble ==
    <<"\n", "process">> \o PLANNING_TAG \o ACTION_TAG \o REASONING_TAG
        \o REFLECTION_TAG \o REPLANNING_TAG \o FINAL_ANSWER_TAG
        \o <<"guidelines", "\n">>
planning_preamble == <<"\n">> \o PLANNING_TAG \o <<"plan requirements", "\n">>
reasoning_preamble == <<"\n", "reasoning requirements", "\n">>
reflection_preamble == <<"\n">> \o REFLECTION_TAG \o <<"mandatory", "\n">>
replanning_preamble ==
    <<"\n">> \o REPLANNING_TAG \o <<"conditional">> \o ACTION_TAG
        \o <<"and">> \o REASONING_TAG \o <<"sections", "\n">>
final_answer_preamble == <<"\n">> \o FINAL_ANSWER_TAG \o <<"after reflection", "\n">>
tool_code_without_python_libraries_preamble == <<"\n", "tool code", "\n">>

\* separator.join(blocks)
RECURSIVE join(_, _)
join(separator, blocks) ==
    IF blocks = <<>> THEN <<>>
    ELSE IF Len(blocks) = 1 THEN blocks[1]
    ELSE blocks[1] \o separator \o join(separator, Tail(blocks))

_build_reflection_planner_instruction ==
    join(<<"\n", "\n">>,
         <<high_level_preamble, planning_preamble, reasoning_preamble,
           reflection_preamble, replanning_preamble, final_answer_preamble,
           tool_code_without_python_libraries_preamble>>)

\* Mutant of build_planning_instruction: the context is written into the text.
build_planning_instruction_with_context(readonly_context, llm_request) ==
    _build_reflection_planner_instruction \o <<readonly_context>>

build_planning_instruction(readonly_context, llm_request) ==
    _build_reflection_planner_instruction

\* ------------------------------------------------------------ inputs
\* What a generated text is made of: a whole tag, a slash, a tag body, a character.
Pieces ==
    NarrativeTags \cup {FINAL_ANSWER_TAG, <<"/">>, <<"F">>, <<"x">>}

RECURSIVE TextsOf(_)
TextsOf(n) ==
    IF n = 0 THEN {<<>>}
    ELSE LET shorter == TextsOf(n - 1)
         IN  shorter \cup {t \o p : t \in shorter, p \in Pieces}

Texts == TextsOf(MaxPieces)

\* One call on a single text Part, over every generated text.
TextInputs == {<<Part(t, None, th)>> : t \in Texts, th \in BOOLEAN}

\* The Parts of the longer lists: actions named, unnamed (name '' or None),
\* and texts of each kind the classification tells apart.
SampleParts ==
    {Part(NoText, FunctionCall("search"), FALSE),
     Part(NoText, FunctionCall(""), FALSE),
     Part(NoText, FunctionCall(NoName), FALSE),
     Part(NoText, None, FALSE),
     Part(<<>>, None, FALSE),
     Part(<<"x">>, None, FALSE),
     Part(<<"x">>, None, TRUE),
     Part(REFLECTION_TAG \o <<"x">>, None, FALSE),
     Part(PLANNING_TAG \o FINAL_ANSWER_TAG \o REPLANNING_TAG, None, FALSE)}

StructuralInputs == UNION {[1..n -> SampleParts] : n \in 0..MaxParts}

Inputs == StructuralInputs \cup TextInputs

\* The arguments build_planning_instruction is called with.
Contexts == {"ctx1", "ctx2"}
Requests == {"req1", "req2"}

\* ------------------------------------------------------------ state
VARIABLES
    heap,                 \* the Part objects, by identity
    input,                \* the Parts as the caller passed them in
    response_parts,       \* the argument: a list of references into heap
    preserved_parts,      \* the local list being built
    first_fc_part_index,
    i,                    \* the for loop's index
    j,                    \* the while loop's index
    pc,                   \* where process_planning_response stands
    result,               \* its return value
    instructions          \* every string build_planning_instruction returned

vars == <<heap, input, response_parts, preserved_parts, first_fc_part_index,
          i, j, pc, result, instructions>>

locals == <<preserved_parts, first_fc_part_index, i, j>>

Pending == [pending |-> TRUE]
List(parts) == [parts |-> parts]

Init ==
    /\ heap \in Inputs
    /\ input = heap
    /\ response_parts = [k \in 1..Len(heap) |-> k]
    /\ preserved_parts = <<>>
    /\ first_fc_part_index = -1
    /\ i = 0
    /\ j = 0
    /\ pc = "call"
    /\ result = Pending
    /\ instructions = {}

\* response_parts[k] of Python, 0-based.
At(k) == heap[response_parts[k + 1]]

\* bool(part.function_call), bool(part.function_call.name)
HasFunctionCall(part) == part.function_call # None
HasName(part) ==
    part.function_call.name # NoName /\ part.function_call.name # ""

\* Mutant of IsEmpty: the test for an empty list is lost.
IsEmptyNever(parts) == FALSE

\* not response_parts
IsEmpty(parts) == parts = <<>>

\* if not response_parts: return None
ReturnNone ==
    /\ pc = "call"
    /\ IsEmpty(response_parts)
    /\ result' = None
    /\ pc' = "done"
    /\ UNCHANGED <<heap, input, response_parts, locals, instructions>>

\* preserved_parts = []; first_fc_part_index = -1; enter the for loop
BeginScan ==
    /\ pc = "call"
    /\ ~IsEmpty(response_parts)
    /\ preserved_parts' = <<>>
    /\ first_fc_part_index' = -1
    /\ i' = 0
    /\ pc' = "scan"
    /\ UNCHANGED <<heap, input, response_parts, j, result, instructions>>

\* a function call without a name: continue
ScanSkipUnnamed ==
    /\ pc = "scan"
    /\ i < Len(response_parts)
    /\ HasFunctionCall(At(i))
    /\ ~HasName(At(i))
    /\ i' = i + 1
    /\ UNCHANGED <<heap, input, response_parts, preserved_parts,
                   first_fc_part_index, j, pc, result, instructions>>

\* the first named function call: append, record the index, break
ScanFirstNamed ==
    /\ pc = "scan"
    /\ i < Len(response_parts)
    /\ HasFunctionCall(At(i))
    /\ HasName(At(i))
    /\ preserved_parts' = Append(preserved_parts, response_parts[i + 1])
    /\ first_fc_part_index' = i
    /\ pc' = "scanned"
    /\ UNCHANGED <<heap, input, response_parts, i, j, result, instructions>>

\* any other part: self._handle_non_function_call_parts(...)
ScanNonFunctionCall ==
    /\ pc = "scan"
    /\ i < Len(response_parts)
    /\ ~HasFunctionCall(At(i))
    /\ LET after == _handle_non_function_call_parts(
                        heap, preserved_parts, response_parts[i + 1])
       IN  /\ heap' = after.heap
           /\ preserved_parts' = after.preserved_parts
    /\ i' = i + 1
    /\ UNCHANGED <<input, response_parts, first_fc_part_index, j, pc, result,
                   instructions>>

\* the for loop runs out
ScanEnd ==
    /\ pc = "scan"
    /\ i >= Len(response_parts)
    /\ pc' = "scanned"
    /\ UNCHANGED <<heap, input, response_parts, locals, result, instructions>>

\* Mutants of ShouldLookahead: index 0 passes the test too.
ShouldLookaheadFromZero(index) == index >= 0
ShouldLookaheadWhenFound(index) == index # -1

\* if first_fc_part_index > 0
ShouldLookahead(index) == index > 0

BeginLookahead ==
    /\ pc = "scanned"
    /\ ShouldLookahead(first_fc_part_index)
    /\ j' = first_fc_part_index + 1
    /\ pc' = "lookahead"
    /\ UNCHANGED <<heap, input, response_parts, preserved_parts,
                   first_fc_part_index, i, result, instructions>>

SkipLookahead ==
    /\ pc = "scanned"
    /\ ~ShouldLookahead(first_fc_part_index)
    /\ pc' = "return"
    /\ UNCHANGED <<heap, input, response_parts, locals, result, instructions>>

\* Mutant of LookaheadKeeps: the else: break is lost.
LookaheadKeepsAnyPart(part) == TRUE

\* inside the while loop: if response_parts[j].function_call
LookaheadKeeps(part) == HasFunctionCall(part)

LookaheadAppend ==
    /\ pc = "lookahead"
    /\ j < Len(response_parts)
    /\ LookaheadKeeps(At(j))
    /\ preserved_parts' = Append(preserved_parts, response_parts[j + 1])
    /\ j' = j + 1
    /\ UNCHANGED <<heap, input, response_parts, first_fc_part_index, i, pc,
                   result, instructions>>

\* the while condition fails, or else: break
LookaheadEnd ==
    /\ pc = "lookahead"
    /\ \/ j >= Len(response_parts)
       \/ j < Len(response_parts) /\ ~LookaheadKeeps(At(j))
    /\ pc' = "return"
    /\ UNCHANGED <<heap, input, response_parts, locals, result, instructions>>

\* return preserved_parts
ReturnPreserved ==
    /\ pc = "return"
    /\ result' = List(preserved_parts)
    /\ pc' = "done"
    /\ UNCHANGED <<heap, input, response_parts, locals, instructions>>

\* A call of build_planning_instruction, before or after the other method's.
BuildPlanningInstruction ==
    /\ pc \in {"call", "done"}
    /\ \E readonly_context \in Contexts, llm_request \in Requests :
           instructions' =
               instructions \cup {build_planning_instruction(readonly_context, llm_request)}
    /\ UNCHANGED <<heap, input, response_parts, locals, pc, result>>

Next ==
    \/ ReturnNone
    \/ BeginScan
    \/ ScanSkipUnnamed
    \/ ScanFirstNamed
    \/ ScanNonFunctionCall
    \/ ScanEnd
    \/ BeginLookahead
    \/ SkipLookahead
    \/ LookaheadAppend
    \/ LookaheadEnd
    \/ ReturnPreserved
    \/ BuildPlanningInstruction

Spec == Init /\ [][Next]_vars

\* ------------------------------------------------------------ vocabulary
\* What the claims speak of, stated on the input and on the returned list
\* without the operators of the code above.
Returned == pc = "done" /\ result # None
Output == [k \in 1..Len(result.parts) |-> heap[result.parts[k]]]
IsInputObject(id) == id \in 1..Len(input)

ActionFragment(p) == p.function_call # None
NamedAction(p) ==
    ActionFragment(p) /\ p.function_call.name \notin {"", NoName}
UnnamedAction(p) == ActionFragment(p) /\ ~NamedAction(p)

\* 1-based place of the first named action of the input, 0 when there is none.
FirstNamed ==
    IF \E k \in 1..Len(input) : NamedAction(input[k])
    THEN CHOOSE k \in 1..Len(input) :
             /\ NamedAction(input[k])
             /\ \A m \in 1..(k - 1) : ~NamedAction(input[m])
    ELSE 0

\* Last place of the run of action fragments that starts right after place f.
RunEnd(f) ==
    CHOOSE e \in f..Len(input) :
        /\ \A m \in (f + 1)..e : ActionFragment(input[m])
        /\ e < Len(input) => ~ActionFragment(input[e + 1])

\* tag occurs in text at place k (1-based).
Occurs(tag, text, k) ==
    /\ k \in 1..(Len(text) - Len(tag) + 1)
    /\ \A m \in 1..Len(tag) : text[k + m - 1] = tag[m]
Occurrences(tag, text) == {k \in 1..Len(text) : Occurs(tag, text, k)}
ContainsFinalAnswer(text) ==
    text # NoText /\ Occurrences(<<"/", "F", "/">>, text) # {}
StartsWithNarrativeTag(text) ==
    /\ text # NoText
    /\ Len(text) >= 3
    /\ text[1] = "/" /\ text[3] = "/"
    /\ text[2] \in {"P", "R", "A", "L", "N"}
EndsWithFinalAnswer(text) ==
    Len(text) >= 3 /\ Occurs(<<"/", "F", "/">>, text, Len(text) - 2)

\* The fragments one text fragment p is expected to contribute.
ExpectedPieces(p) ==
    IF ContainsFinalAnswer(p.text)
    THEN LET last == CHOOSE k \in Occurrences(<<"/", "F", "/">>, p.text) :
                         \A m \in Occurrences(<<"/", "F", "/">>, p.text) : m <= k
             head == SubSeq(p.text, 1, last + 2)
             tail == SubSeq(p.text, last + 3, Len(p.text))
         IN  <<[text |-> head, function_call |-> None, thought |-> TRUE]>>
             \o (IF tail = <<>> THEN <<>>
                 ELSE <<[text |-> tail, function_call |-> None, thought |-> FALSE]>>)
    ELSE <<[p EXCEPT !.thought = p.thought \/ StartsWithNarrativeTag(p.text)]>>

\* The fragments expected of the text fragments at places 1..n of the input.
RECURSIVE ExpectedOfTexts(_)
ExpectedOfTexts(n) ==
    IF n = 0 THEN <<>>
    ELSE ExpectedOfTexts(n - 1)
         \o (IF ActionFragment(input[n]) THEN <<>> ELSE ExpectedPieces(input[n]))

InputRange(a, b) == [k \in 1..(b - a + 1) |-> input[a + k - 1]]
IdRange(a, b) == [k \in 1..(b - a + 1) |-> a + k - 1]

\* ------------------------------------------------------------ claims

\* C1: when the first named action sits at a position greater than 0, the
\* returned list is the classified text fragments before it, then that very
\* action, then the maximal run of action fragments right after it; the first
\* non-action fragment after the run and everything behind it add nothing.
C1_LeadingTextThenActionRun ==
    (Returned /\ FirstNamed > 1) =>
        LET f == FirstNamed
            e == RunEnd(f)
            n == Len(result.parts)
        IN  /\ Output = ExpectedOfTexts(f - 1) \o InputRange(f, e)
            /\ SubSeq(result.parts, n - (e - f), n) = IdRange(f, e)

\* C1 witness: [text, named action, action, text] returned as three fragments.
C1_Witness ==
    /\ Returned
    /\ Len(input) = 4
    /\ FirstNamed = 2
    /\ ~ActionFragment(input[1]) /\ Truthy(input[1].text)
    /\ ActionFragment(input[3])
    /\ ~ActionFragment(input[4])
    /\ result.parts = <<1, 2, 3>>

\* C2: no action fragment with an empty or missing name is in the returned
\* list, whichever phase met it.
C2_NoUnnamedActionReturned ==
    Returned => \A k \in 1..Len(Output) : ~UnnamedAction(Output[k])

\* C3 as stated: when only unnamed actions precede the first named action,
\* the returned list is that single action, whatever follows it.
C3_AsStated ==
    (Returned /\ FirstNamed > 0
        /\ \A m \in 1..(FirstNamed - 1) : ActionFragment(input[m]))
    => result.parts = <<FirstNamed>>

\* C3 amended: the lookahead runs exactly when the first named action sits at
\* an input position greater than 0, unnamed actions before it counting as
\* positions; preceded only by unnamed actions (at least one), the returned
\* list is the named action and the run of action fragments right after it.
C3_LookaheadByPosition ==
    /\ pc = "lookahead" => FirstNamed > 1
    /\ pc = "done" => ((j > 0) <=> (FirstNamed > 1))
    /\ (Returned /\ FirstNamed > 1
          /\ \A m \in 1..(FirstNamed - 1) : ActionFragment(input[m]))
       => result.parts = IdRange(FirstNamed, RunEnd(FirstNamed))

\* C3 witness: [unnamed action, named action, action] returned as the last two.
C3_Witness ==
    /\ Returned
    /\ Len(input) = 3
    /\ UnnamedAction(input[1])
    /\ NamedAction(input[2])
    /\ ActionFragment(input[3])
    /\ result.parts = <<2, 3>>

TextOnlyInput ==
    /\ input # <<>>
    /\ \A k \in 1..Len(input) : ~ActionFragment(input[k]) /\ ~input[k].thought

\* Every input fragment is in the returned list, in order, a fragment with the
\* final-answer tag as its head and tail pieces.
AllTextsPreserved ==
    [k \in 1..Len(Output) |-> Output[k].text]
        = [k \in 1..Len(ExpectedOfTexts(Len(input))) |->
               ExpectedOfTexts(Len(input))[k].text]

\* C4 as stated: on a text-only input every fragment is preserved in order and
\* each returned fragment is thought iff its own text starts with a narrative
\* tag or contains the final-answer tag.
C4_AsStated ==
    (Returned /\ TextOnlyInput) =>
        /\ AllTextsPreserved
        /\ \A k \in 1..Len(Output) :
               Output[k].thought <=>
                   \/ StartsWithNarrativeTag(Output[k].text)
                   \/ ContainsFinalAnswer(Output[k].text)

\* C4 amended: on a text-only input every fragment is preserved in order, and
\* a returned fragment is thought iff it contains the final-answer tag (the
\* head piece of a split) or it is an input fragment, not a piece of a split,
\* whose text starts with a narrative tag; a tail piece is never thought.
C4_TextOnlyPreservedAndMarked ==
    (Returned /\ TextOnlyInput) =>
        /\ AllTextsPreserved
        /\ \A k \in 1..Len(Output) :
               Output[k].thought <=>
                   \/ ContainsFinalAnswer(Output[k].text)
                   \/ /\ IsInputObject(result.parts[k])
                      /\ StartsWithNarrativeTag(Output[k].text)

\* C4 witness: two text fragments, the first marked for its narrative tag, the
\* second split into a thought head and a plain tail.
C4_Witness ==
    /\ Returned /\ TextOnlyInput
    /\ Len(input) = 2
    /\ StartsWithNarrativeTag(input[1].text) /\ ~ContainsFinalAnswer(input[1].text)
    /\ ContainsFinalAnswer(input[2].text)
    /\ Len(Output) = 3
    /\ Output[1].thought /\ Output[2].thought /\ ~Output[3].thought

\* A call on one text fragment.
SingleText == Len(input) = 1 /\ ~ActionFragment(input[1])

\* C5: a text with the final-answer tag is split at the tag's last occurrence:
\* head and tail make up the text, head ends with the tag and holds every
\* occurrence, tail holds none; head is returned thought-marked, then tail,
\* not thought, only when it is not empty.
C5_SplitAtLastFinalAnswer ==
    (Returned /\ SingleText /\ ContainsFinalAnswer(input[1].text)) =>
        LET T == input[1].text
            n == Len(Output)
            head == Output[1].text
            tail == IF n = 2 THEN Output[2].text ELSE <<>>
        IN  /\ n \in {1, 2}
            /\ head \o tail = T
            /\ EndsWithFinalAnswer(head)
            /\ Cardinality(Occurrences(<<"/", "F", "/">>, head))
                   = Cardinality(Occurrences(<<"/", "F", "/">>, T))
            /\ Occurrences(<<"/", "F", "/">>, tail) = {}
            /\ Output[1].thought
            /\ n = 2 => (tail # <<>> /\ ~Output[2].thought)

\* C5 witness: a text with two occurrences of the tag and something after.
C5_Witness ==
    /\ Returned /\ SingleText
    /\ Cardinality(Occurrences(<<"/", "F", "/">>, input[1].text)) = 2
    /\ Len(Output) = 2
    /\ Output[2].text # <<>>

\* C6: None is returned iff the input is empty; a non-empty input always gets
\* a list, which may be empty; no step reads past the end of the list.
C6_NoneIffEmptyInput ==
    /\ pc # "done" => result = Pending
    /\ pc = "scan" => i \in 0..Len(response_parts)
    /\ pc = "lookahead" => j \in 1..Len(response_parts)
    /\ pc = "done" =>
           /\ (result = None) <=> (input = <<>>)
           /\ input # <<>> => (result # Pending /\ result.parts \in Seq(1..Len(heap)))

\* C6 witness: an input of unnamed actions only returns the empty list.
C6_Witness ==
    /\ pc = "done"
    /\ input # <<>>
    /\ \A k \in 1..Len(input) : UnnamedAction(input[k])
    /\ result = [parts |-> <<>>]

\* The seven blocks written out, a blank line between each two.
SevenBlocksJoined ==
    high_level_preamble \o <<"\n", "\n">> \o planning_preamble
        \o <<"\n", "\n">> \o reasoning_preamble
        \o <<"\n", "\n">> \o reflection_preamble
        \o <<"\n", "\n">> \o replanning_preamble
        \o <<"\n", "\n">> \o final_answer_preamble
        \o <<"\n", "\n">> \o tool_code_without_python_libraries_preamble

\* C7: every call of build_planning_instruction, whatever its arguments and
\* whether before or after process_planning_response, returns the same string:
\* the seven blocks with a blank line between each two.
C7_InstructionFixed ==
    \A s \in instructions : s = SevenBlocksJoined

\* C7 witness: the instruction was built and the other method has returned.
C7_Witness ==
    /\ instructions # {}
    /\ Returned
    /\ heap # input

\* C8: a named action at position 0 is returned alone; no lookahead runs, so
\* later fragments, actions right after it too, are left out.
C8_NamedFirstReturnedAlone ==
    (input # <<>> /\ NamedAction(input[1])) =>
        /\ pc # "lookahead"
        /\ pc = "done" => (result.parts = <<1>> /\ j = 0)

\* C8 witness: [named action, action, ...] returned as the first fragment only.
C8_Witness ==
    /\ Returned
    /\ Len(input) >= 2
    /\ NamedAction(input[1])
    /\ ActionFragment(input[2])
    /\ result.parts = <<1>>

\* A text fragment both rules could apply to.
BothRules(p) ==
    /\ ~ActionFragment(p)
    /\ StartsWithNarrativeTag(p.text)
    /\ ContainsFinalAnswer(p.text)

\* C9: for a text that starts with a narrative tag and contains the
\* final-answer tag only the split applies: the head is returned thought, the
\* tail (if any) not thought, both new fragments; the input fragment itself is
\* neither marked nor returned.
C9_FinalAnswerRuleFirst ==
    /\ \A k \in 1..Len(input) :
           BothRules(input[k]) =>
               /\ heap[k] = input[k]
               /\ \A m \in 1..Len(preserved_parts) : preserved_parts[m] # k
    /\ (Returned /\ SingleText /\ BothRules(input[1])) =>
           /\ Output = ExpectedPieces(input[1])
           /\ Output[1].thought
           /\ Len(Output) = 2 => ~Output[2].thought
           /\ \A m \in 1..Len(Output) : ~IsInputObject(result.parts[m])

\* C9 witness: such a text whose tail itself starts with a narrative tag.
C9_Witness ==
    /\ Returned /\ SingleText /\ BothRules(input[1])
    /\ ~input[1].thought
    /\ Len(Output) = 2
    /\ StartsWithNarrativeTag(Output[2].text)

\* The input fragments whose thought flag the call sets in place.
MarkedInPlace(k) ==
    /\ ~ActionFragment(input[k])
    /\ FirstNamed = 0 \/ k < FirstNamed
    /\ StartsWithNarrativeTag(input[k].text)
    /\ ~ContainsFinalAnswer(input[k].text)

\* C10: the call changes nothing the caller sees but the thought flag of the
\* input text fragments scanned before the first named action whose non-empty
\* text starts with a narrative tag and has no final-answer tag; these are
\* set in place and the same objects are returned.  All other input fragments,
\* the input list and every flag already set stay as they were.
C10_OnlyThoughtFlagSetInPlace ==
    /\ response_parts = IdRange(1, Len(input))
    /\ Len(heap) >= Len(input)
    /\ \A k \in 1..Len(input) :
           /\ heap[k].text = input[k].text
           /\ heap[k].function_call = input[k].function_call
           /\ input[k].thought => heap[k].thought
           /\ heap[k] # input[k] =>
                  (MarkedInPlace(k) /\ \E m \in 1..Len(preserved_parts) :
                                           preserved_parts[m] = k)
           /\ (Returned /\ MarkedInPlace(k)) =>
                  (heap[k].thought /\ \E m \in 1..Len(result.parts) :
                                          result.parts[m] = k)
           /\ (Returned /\ ContainsFinalAnswer(input[k].text)) =>
                  \A m \in 1..Len(result.parts) : result.parts[m] # k

\* C10 witness: one fragment marked in place and returned, beside a text with
\* the final-answer tag, an action and a fragment behind it left as they were.
C10_Witness ==
    /\ Returned
    /\ Len(input) = 4
    /\ MarkedInPlace(1) /\ heap[1].thought /\ ~input[1].thought
    /\ ContainsFinalAnswer(input[2].text) /\ heap[2] = input[2]
    /\ FirstNamed = 3
    /\ StartsWithNarrativeTag(input[4].text) /\ heap[4] = input[4]

=============================================================================
